---- MODULE Spec2Model ----
(***************************************************************************)
(* morpho-rs LLM integration adapters.                                     *)
(*                                                                         *)
(*   integration/python/lm_studio_handler.py  the stdio shape: __main__    *)
(*       reads one JSON document, calls handle_function_call and prints    *)
(*       the result;                                                       *)
(*   integration/python/qwen_tools.py         the library shape: call_tool *)
(*       is called by an embedding client.                                 *)
(*                                                                         *)
(* One invocation at a time (both shapes are synchronous).  The backend is *)
(* the environment: it answers a posted request with any status and body,  *)
(* or the request fails at the network level.                              *)
(***************************************************************************)
EXTENDS Integers, Sequences, FiniteSets, TLC

VARIABLES
    shape,          \* "stdio" (lm_studio_handler.py) or "library" (qwen_tools.py)
    pc,             \* position of the current invocation
    function_name,  \* the tool name of the current ToolRequest
    arguments,      \* the caller's arguments mapping (key -> Python value)
    posts,          \* requests.post calls of the current invocation, in order
    response,       \* <<>> or <<r>>: how the posted request completed
    outcome,        \* <<>> or <<o>>: what the handler function returned or raised
    stdout,         \* documents printed by the stdio process
    exit_status,    \* stdio process: "none", "running", "ok", "traceback"
    earlier         \* <<>> or <<s>>: one earlier invocation, kept by the observer

vars == <<shape, pc, function_name, arguments, posts, response, outcome,
          stdout, exit_status, earlier>>

----------------------------------------------------------------------------
(* Python values, tagged by type.  A dict is its sequence of <<key, value>> *)
(* items in insertion order.                                                *)

PyNone == [t |-> "NoneType"]
PyBool(b) == [t |-> "bool", v |-> b]
PyStr(s) == [t |-> "str", v |-> s]
PyList(xs) == [t |-> "list", v |-> xs]
PyDict(items) == [t |-> "dict", v |-> items]

DictKeys(d) == {d.v[i][1] : i \in DOMAIN d.v}
DictGet(d, k) == d.v[CHOOSE i \in DOMAIN d.v : d.v[i][1] = k][2]

\* json.dumps with the default separators (", " and ": ")
RECURSIVE JsonDumps(_)
RECURSIVE DumpsList(_, _)
RECURSIVE DumpsItems(_, _)
DumpsList(xs, i) ==
    IF i > Len(xs) THEN ""
    ELSE (IF i > 1 THEN ", " ELSE "") \o JsonDumps(xs[i]) \o DumpsList(xs, i + 1)
DumpsItems(items, i) ==
    IF i > Len(items) THEN ""
    ELSE (IF i > 1 THEN ", " ELSE "")
         \o "\"" \o items[i][1] \o "\": " \o JsonDumps(items[i][2])
         \o DumpsItems(items, i + 1)
JsonDumps(x) ==
    CASE x.t = "NoneType" -> "null"
      [] x.t = "bool" -> IF x.v THEN "true" ELSE "false"
      [] x.t = "str" -> "\"" \o x.v \o "\""
      [] x.t = "list" -> "[" \o DumpsList(x.v, 1) \o "]"
      [] x.t = "dict" -> "{" \o DumpsItems(x.v, 1) \o "}"

----------------------------------------------------------------------------
(* Inputs.                                                                  *)

MaxBlacklist == 1

KnownTools == {"list_rust_items", "analyze_rust_callgraph", "get_rust_source"}
ToolNames == KnownTools \cup {"delete_everything"}

FunctionValues == {PyStr("foo"), PyStr("./src/lib.rs::generate_output")}
PublicOnlyValues == {PyBool(TRUE)}
RECURSIVE DirLists(_)
DirLists(n) ==
    IF n = 0 THEN {<< >>}
    ELSE DirLists(n - 1) \cup {Append(l, PyStr("target")) : l \in DirLists(n - 1)}
BlacklistValues == {PyList(l) : l \in DirLists(MaxBlacklist)}

ArgKeys == {"function", "public_only", "blacklist"}
FullArgs ==
    [function : FunctionValues, public_only : PublicOnlyValues,
     blacklist : BlacklistValues]
ArgMaps == {[k \in D |-> full[k]] : full \in FullArgs, D \in SUBSET ArgKeys}

\* Faulty variant of dict.get: a value remembered from an earlier call
\* stands in for an omitted key.
ArgsGet_remembered(args, key, default) ==
    IF key \in DOMAIN args THEN args[key]
    ELSE IF earlier # << >> /\ key \in DOMAIN earlier[1].arguments
    THEN earlier[1].arguments[key]
    ELSE default

\* dict.get(key, default)
ArgsGet(args, key, default) == IF key \in DOMAIN args THEN args[key] ELSE default

\* What the backend can send back.
ResultText == "{\"result\": {\"items\": [\"a\",\"b\"]}}"
DetailText == "{\"detail\": \"no such function\"}"
PlainText == "not found"
BodyTexts == {ResultText, DetailText, PlainText}
HTTP_OK == 200
Statuses == {HTTP_OK, 404}

ItemsPayload == PyDict(<< <<"items", PyList(<<PyStr("a"), PyStr("b")>>)>> >>)

\* response.json(): the decoded body, or a ValueError (JSONDecodeError)
JsonLoads(text) ==
    CASE text = ResultText ->
            [ok |-> TRUE, value |-> PyDict(<< <<"result", ItemsPayload>> >>)]
      [] text = DetailText ->
            [ok |-> TRUE,
             value |-> PyDict(<< <<"detail", PyStr("no such function")>> >>)]
      [] OTHER -> [ok |-> FALSE]

Responses ==
    {[kind |-> "response", status_code |-> s, text |-> b] :
        s \in Statuses, b \in BodyTexts}
    \cup {[kind |-> "failure"]}

----------------------------------------------------------------------------
(* The handlers.                                                            *)

\* Faulty variant: the library shape configured with another base address.
MORPHO_BASE_localhost == "http://localhost:8080"

base_url == "http://127.0.0.1:8080"
MORPHO_BASE == "http://127.0.0.1:8080"

Post(url, json) == [act |-> "post", url |-> url, json |-> json]
Raise(exc, arg) == [kind |-> "raise", exc |-> exc, arg |-> arg]
Return(value) == [kind |-> "return", value |-> value]

\* Faulty variant: public_only defaults to True.
ListAllBody_default_true(args) ==
    [t |-> "dict",
     v |-> << <<"public_only",
                IF "public_only" \in DOMAIN args THEN args["public_only"]
                ELSE [t |-> "bool", v |-> TRUE]>>,
              <<"blacklist",
                IF "blacklist" \in DOMAIN args THEN args["blacklist"]
                ELSE [t |-> "list", v |-> << >>]>> >>]

\* Faulty variant: the `function` argument is passed through unrenamed.
CallGraphBody_unrenamed(args) ==
    [t |-> "dict",
     v |-> << <<"function", args["function"]>>,
              <<"public_only",
                IF "public_only" \in DOMAIN args THEN args["public_only"]
                ELSE [t |-> "bool", v |-> FALSE]>>,
              <<"blacklist",
                IF "blacklist" \in DOMAIN args THEN args["blacklist"]
                ELSE [t |-> "list", v |-> << >>]>> >>]

\* The json= dict literal of each branch.  arguments["function"] raises
\* KeyError before requests.post is entered.
ListAllBody(args) ==
    PyDict(<< <<"public_only", ArgsGet(args, "public_only", PyBool(FALSE))>>,
              <<"blacklist", ArgsGet(args, "blacklist", PyList(<< >>))>> >>)
CallGraphBody(args) ==
    PyDict(<< <<"root_function", args["function"]>>,
              <<"public_only", ArgsGet(args, "public_only", PyBool(FALSE))>>,
              <<"blacklist", ArgsGet(args, "blacklist", PyList(<< >>))>> >>)
GetSourceBody(args) ==
    PyDict(<< <<"function", args["function"]>>,
              <<"blacklist", ArgsGet(args, "blacklist", PyList(<< >>))>> >>)

\* Faulty variant: arguments.get("function") instead of arguments["function"],
\* so a missing `function` is posted as null.
handle_function_call_dispatch_get(name, args) ==
    IF name = "list_rust_items"
    THEN Post(base_url \o "/tool/list_all", ListAllBody(args))
    ELSE IF name = "analyze_rust_callgraph"
    THEN Post(base_url \o "/tool/generate_call_graph",
              PyDict(<< <<"root_function", ArgsGet(args, "function", PyNone)>>,
                        <<"public_only", ArgsGet(args, "public_only", PyBool(FALSE))>>,
                        <<"blacklist", ArgsGet(args, "blacklist", PyList(<< >>))>> >>))
    ELSE IF name = "get_rust_source"
    THEN Post(base_url \o "/tool/get_source",
              PyDict(<< <<"function", ArgsGet(args, "function", PyNone)>>,
                        <<"blacklist", ArgsGet(args, "blacklist", PyList(<< >>))>> >>))
    ELSE [act |-> "return",
          value |-> PyDict(<< <<"error", PyStr("Unknown function: " \o name)>> >>)]

\* handle_function_call up to the request: the if/elif/else chain
handle_function_call_dispatch(name, args) ==
    IF name = "list_rust_items"
    THEN Post(base_url \o "/tool/list_all", ListAllBody(args))
    ELSE IF name = "analyze_rust_callgraph"
    THEN IF "function" \in DOMAIN args
         THEN Post(base_url \o "/tool/generate_call_graph", CallGraphBody(args))
         ELSE [act |-> "raise", exc |-> "KeyError", arg |-> "function"]
    ELSE IF name = "get_rust_source"
    THEN IF "function" \in DOMAIN args
         THEN Post(base_url \o "/tool/get_source", GetSourceBody(args))
         ELSE [act |-> "raise", exc |-> "KeyError", arg |-> "function"]
    ELSE [act |-> "return",
          value |-> PyDict(<< <<"error", PyStr("Unknown function: " \o name)>> >>)]

\* Faulty variant: the stdio shape unwraps `result` as call_tool does.
handle_function_call_result_unwrap(r) ==
    IF r.kind = "failure"
    THEN Raise("ConnectionError", "requests.post")
    ELSE IF r.status_code = HTTP_OK
    THEN IF ~JsonLoads(r.text).ok
         THEN Raise("ValueError", "response.json")
         ELSE IF "result" \in DictKeys(JsonLoads(r.text).value)
         THEN Return(DictGet(JsonLoads(r.text).value, "result"))
         ELSE Raise("KeyError", "result")
    ELSE Return(PyDict(<< <<"error",
            PyStr("HTTP " \o ToString(r.status_code) \o ": " \o r.text)>> >>))

\* handle_function_call after the request
handle_function_call_result(r) ==
    IF r.kind = "failure"
    THEN Raise("ConnectionError", "requests.post")
    ELSE IF r.status_code = HTTP_OK
    THEN IF JsonLoads(r.text).ok
         THEN Return(JsonLoads(r.text).value)
         ELSE Raise("ValueError", "response.json")
    ELSE Return(PyDict(<< <<"error",
            PyStr("HTTP " \o ToString(r.status_code) \o ": " \o r.text)>> >>))

\* call_tool up to the request: the if/elif chain; no else, so an
\* unmatched name falls off the end of the function and returns None
call_tool_dispatch(name, args) ==
    IF name = "list_rust_items"
    THEN Post(MORPHO_BASE \o "/tool/list_all", ListAllBody(args))
    ELSE IF name = "analyze_rust_callgraph"
    THEN IF "function" \in DOMAIN args
         THEN Post(MORPHO_BASE \o "/tool/generate_call_graph", CallGraphBody(args))
         ELSE [act |-> "raise", exc |-> "KeyError", arg |-> "function"]
    ELSE IF name = "get_rust_source"
    THEN IF "function" \in DOMAIN args
         THEN Post(MORPHO_BASE \o "/tool/get_source", GetSourceBody(args))
         ELSE [act |-> "raise", exc |-> "KeyError", arg |-> "function"]
    ELSE [act |-> "return", value |-> PyNone]

\* call_tool after the request: resp.json()["result"], whatever the status
call_tool_result(r) ==
    IF r.kind = "failure"
    THEN Raise("ConnectionError", "requests.post")
    ELSE IF ~JsonLoads(r.text).ok
    THEN Raise("ValueError", "resp.json")
    ELSE IF "result" \in DictKeys(JsonLoads(r.text).value)
    THEN Return(DictGet(JsonLoads(r.text).value, "result"))
    ELSE Raise("KeyError", "result")

----------------------------------------------------------------------------
(* The state machine.                                                       *)

Init ==
    /\ shape = "none"
    /\ pc = "idle"
    /\ function_name = ""
    /\ arguments = << >>
    /\ posts = << >>
    /\ response = << >>
    /\ outcome = << >>
    /\ stdout = << >>
    /\ exit_status = "none"
    /\ earlier = << >>

\* __main__ of lm_studio_handler.py: read the ToolRequest from stdin and
\* call handle_function_call
StdioStart ==
    /\ pc = "idle"
    /\ \E n \in ToolNames, a \in ArgMaps :
          /\ function_name' = n
          /\ arguments' = a
    /\ shape' = "stdio"
    /\ exit_status' = "running"
    /\ pc' = "dispatch"
    /\ UNCHANGED <<posts, response, outcome, stdout, earlier>>

\* the embedding client calls call_tool(name, arguments)
LibraryStart ==
    /\ pc = "idle"
    /\ \E n \in ToolNames, a \in ArgMaps :
          /\ function_name' = n
          /\ arguments' = a
    /\ shape' = "library"
    /\ pc' = "dispatch"
    /\ UNCHANGED <<posts, response, outcome, stdout, exit_status, earlier>>

DispatchStep(d) ==
    /\ IF d.act = "post"
       THEN /\ posts' = Append(posts, [url |-> d.url, json |-> d.json])
            /\ pc' = "awaiting"
            /\ UNCHANGED outcome
       ELSE /\ outcome' = << IF d.act = "raise" THEN Raise(d.exc, d.arg)
                             ELSE Return(d.value) >>
            /\ pc' = "finished"
            /\ UNCHANGED posts
    /\ UNCHANGED <<shape, function_name, arguments, response, stdout,
                   exit_status, earlier>>

HandleDispatch ==
    /\ pc = "dispatch"
    /\ shape = "stdio"
    /\ DispatchStep(handle_function_call_dispatch(function_name, arguments))

CallToolDispatch ==
    /\ pc = "dispatch"
    /\ shape = "library"
    /\ DispatchStep(call_tool_dispatch(function_name, arguments))

\* requests.post blocks until the backend answers or the transport fails
BackendRespond ==
    /\ pc = "awaiting"
    /\ \E r \in Responses : response' = <<r>>
    /\ pc' = "responded"
    /\ UNCHANGED <<shape, function_name, arguments, posts, outcome, stdout,
                   exit_status, earlier>>

\* Faulty variant: one more attempt after a non-200 response.
HandleResponse_retry ==
    /\ pc = "responded"
    /\ shape = "stdio"
    /\ IF response[1].kind = "response" /\ response[1].status_code # HTTP_OK
          /\ Len(posts) < 2
       THEN /\ posts' = Append(posts, posts[1])
            /\ response' = << >>
            /\ pc' = "awaiting"
            /\ UNCHANGED outcome
       ELSE /\ outcome' = <<handle_function_call_result(response[1])>>
            /\ pc' = "finished"
            /\ UNCHANGED <<posts, response>>
    /\ UNCHANGED <<shape, function_name, arguments, stdout, exit_status, earlier>>

HandleResponse ==
    /\ pc = "responded"
    /\ shape = "stdio"
    /\ outcome' = <<handle_function_call_result(response[1])>>
    /\ pc' = "finished"
    /\ UNCHANGED <<shape, function_name, arguments, posts, response, stdout,
                   exit_status, earlier>>

CallToolResponse ==
    /\ pc = "responded"
    /\ shape = "library"
    /\ outcome' = <<call_tool_result(response[1])>>
    /\ pc' = "done"
    /\ UNCHANGED <<shape, function_name, arguments, posts, response, stdout,
                   exit_status, earlier>>

\* call_tool returned or raised without a request: back in the caller
CallToolFinish ==
    /\ pc = "finished"
    /\ shape = "library"
    /\ pc' = "done"
    /\ UNCHANGED <<shape, function_name, arguments, posts, response, outcome,
                   stdout, exit_status, earlier>>

\* __main__: print(json.dumps(result)); an exception out of
\* handle_function_call is not caught, the interpreter prints a traceback
\* on stderr and nothing reaches stdout
StdioFinish ==
    /\ pc = "finished"
    /\ shape = "stdio"
    /\ IF outcome[1].kind = "return"
       THEN /\ stdout' = Append(stdout, JsonDumps(outcome[1].value))
            /\ exit_status' = "ok"
       ELSE /\ exit_status' = "traceback"
            /\ UNCHANGED stdout
    /\ pc' = "done"
    /\ UNCHANGED <<shape, function_name, arguments, posts, response, outcome,
                   earlier>>

Summary ==
    [shape |-> shape, name |-> function_name, arguments |-> arguments,
     posts |-> posts]

\* The invocation is over; nothing of it is kept by the adapter.  The
\* observer either keeps its summary for comparison or keeps the one it has.
Forget(keep) ==
    /\ pc = "done"
    /\ pc' = "idle"
    /\ shape' = "none"
    /\ function_name' = ""
    /\ arguments' = << >>
    /\ posts' = << >>
    /\ response' = << >>
    /\ outcome' = << >>
    /\ stdout' = << >>
    /\ exit_status' = "none"
    /\ earlier' = IF keep THEN <<Summary>> ELSE earlier

NextCall == \E keep \in BOOLEAN : Forget(keep)

Next ==
    \/ StdioStart
    \/ LibraryStart
    \/ HandleDispatch
    \/ CallToolDispatch
    \/ BackendRespond
    \/ HandleResponse
    \/ CallToolResponse
    \/ CallToolFinish
    \/ StdioFinish
    \/ NextCall

Spec == Init /\ [][Next]_vars

----------------------------------------------------------------------------
(* Vocabulary of the properties.                                            *)

Returned == outcome # << >> /\ outcome[1].kind = "return"
Raised == outcome # << >> /\ outcome[1].kind = "raise"
Over == pc \in {"finished", "done"}

NeedsFunction == function_name \in {"analyze_rust_callgraph", "get_rust_source"}
FunctionMissing == NeedsFunction /\ "function" \notin DOMAIN arguments
GotResponse == response # << >> /\ response[1].kind = "response"
TransportFailed == response # << >> /\ response[1].kind = "failure"

\* the {error: string} envelope
IsErrorDict(x) ==
    /\ x.t = "dict"
    /\ Len(x.v) = 1
    /\ x.v[1][1] = "error"
    /\ x.v[1][2].t = "str"
ErrorText(x) == x.v[1][2].v

\* the body decoded from a 200 response is exactly {result: R}
ResultOnly200 ==
    /\ GotResponse
    /\ response[1].status_code = 200
    /\ JsonLoads(response[1].text).ok
    /\ DictKeys(JsonLoads(response[1].text).value) = {"result"}
ResultPayload == DictGet(JsonLoads(response[1].text).value, "result")

SameRequestEarlier ==
    /\ earlier # << >>
    /\ earlier[1].name = function_name
    /\ earlier[1].arguments = arguments

----------------------------------------------------------------------------
(* C1: an unknown tool name issues no backend request and fails with an    *)
(* error naming the tool: the stdio shape returns {error: string} naming   *)
(* it, the library shape raises instead of returning a normal value.       *)
C1_UnknownToolFails ==
    (Over /\ function_name \notin KnownTools) =>
        /\ posts = << >>
        /\ outcome # << >>
        /\ IF shape = "stdio"
           THEN /\ Returned
                /\ IsErrorDict(outcome[1].value)
                /\ \E prefix \in {"", "Unknown function: ", "UnknownTool: "} :
                      ErrorText(outcome[1].value) = prefix \o function_name
           ELSE Raised

(* C2: a non-200 response ends, in both shapes, in a backend error that    *)
(* carries the status code and the raw body text, and the body is not      *)
(* decoded as JSON on that path: no decoding failure, no result returned.  *)
C2_Non200IsBackendError ==
    (pc = "done" /\ GotResponse /\ response[1].status_code # 200) =>
        IF shape = "stdio"
        THEN /\ Returned
             /\ IsErrorDict(outcome[1].value)
             /\ ErrorText(outcome[1].value) =
                   "HTTP " \o ToString(response[1].status_code) \o ": "
                   \o response[1].text
        ELSE /\ Raised
             /\ outcome[1].exc \notin {"ValueError", "KeyError"}

(* C3: the stdio process always writes exactly one JSON document and       *)
(* terminates normally; when an error of any kind occurred the document    *)
(* is {error: string}.                                                     *)
C3_StdioAlwaysOneDocument ==
    (shape = "stdio" /\ pc = "done") =>
        /\ Len(stdout) = 1
        /\ exit_status = "ok"
        /\ (\/ function_name \notin KnownTools
            \/ FunctionMissing
            \/ TransportFailed
            \/ (GotResponse /\ response[1].status_code # 200))
           => /\ Returned
              /\ IsErrorDict(outcome[1].value)
              /\ stdout[1] = JsonDumps(outcome[1].value)

(* C4: analyze_rust_callgraph and get_rust_source without a `function`     *)
(* argument fail, in both shapes, with the missing-key error and no        *)
(* request has been issued when they fail.                                 *)
C4_MissingArgumentFailsFast ==
    FunctionMissing =>
        /\ posts = << >>
        /\ response = << >>
        /\ pc \notin {"awaiting", "responded"}
        /\ Over => outcome = <<Raise("KeyError", "function")>>

C4_Witness ==
    /\ pc = "finished"
    /\ shape = "stdio"
    /\ function_name = "get_rust_source"
    /\ FunctionMissing
    /\ Raised
    /\ earlier # << >>
    /\ earlier[1].shape = "library"
    /\ earlier[1].name = "analyze_rust_callgraph"
    /\ "function" \notin DOMAIN earlier[1].arguments

(* C5: the body posted for each tool holds exactly the documented keys,    *)
(* at the documented endpoint, with public_only = false and blacklist = [] *)
(* for omitted optional arguments and the supplied value otherwise.        *)
DocumentedOptional(json, key, default) ==
    DictGet(json, key) = IF key \in DOMAIN arguments THEN arguments[key] ELSE default
C5_DocumentedRequest ==
    \A i \in DOMAIN posts :
        LET url == posts[i].url
            json == posts[i].json
        IN  /\ json.t = "dict"
            /\ Len(json.v) = Cardinality(DictKeys(json))
            /\ function_name = "list_rust_items" =>
                  /\ url = "http://127.0.0.1:8080/tool/list_all"
                  /\ DictKeys(json) = {"public_only", "blacklist"}
                  /\ DocumentedOptional(json, "public_only", PyBool(FALSE))
                  /\ DocumentedOptional(json, "blacklist", PyList(<< >>))
            /\ function_name = "analyze_rust_callgraph" =>
                  /\ url = "http://127.0.0.1:8080/tool/generate_call_graph"
                  /\ DictKeys(json) = {"root_function", "public_only", "blacklist"}
                  /\ DocumentedOptional(json, "public_only", PyBool(FALSE))
                  /\ DocumentedOptional(json, "blacklist", PyList(<< >>))
            /\ function_name = "get_rust_source" =>
                  /\ url = "http://127.0.0.1:8080/tool/get_source"
                  /\ DictKeys(json) = {"function", "blacklist"}
                  /\ DocumentedOptional(json, "blacklist", PyList(<< >>))
            /\ function_name \in KnownTools

C5_Witness ==
    /\ pc = "awaiting"
    /\ function_name = "list_rust_items"
    /\ DOMAIN arguments = {}
    /\ Len(posts) = 1
    /\ JsonDumps(posts[1].json) = "{\"public_only\": false, \"blacklist\": []}"
    /\ earlier # << >>
    /\ earlier[1].name = "analyze_rust_callgraph"
    /\ DOMAIN earlier[1].arguments = {"function", "blacklist"}
    /\ Len(earlier[1].posts) = 1

(* C6: analyze_rust_callgraph sends the `function` argument as             *)
(* root_function and sends no `function` key; get_rust_source sends it as  *)
(* function and sends no root_function key.                                *)
C6_FunctionRenamed ==
    \A i \in DOMAIN posts :
        /\ function_name = "analyze_rust_callgraph" =>
              /\ "root_function" \in DictKeys(posts[i].json)
              /\ DictGet(posts[i].json, "root_function") = arguments["function"]
              /\ "function" \notin DictKeys(posts[i].json)
        /\ function_name = "get_rust_source" =>
              /\ "function" \in DictKeys(posts[i].json)
              /\ DictGet(posts[i].json, "function") = arguments["function"]
              /\ "root_function" \notin DictKeys(posts[i].json)

C6_Witness ==
    /\ pc = "awaiting"
    /\ function_name = "analyze_rust_callgraph"
    /\ "function" \in DOMAIN arguments
    /\ arguments["function"] = PyStr("foo")
    /\ Len(posts) = 1
    /\ DictGet(posts[1].json, "root_function") = PyStr("foo")

(* C7 as stated: on a 200 response whose body is {result: R} the stdio     *)
(* shape writes exactly R and call_tool returns R.                         *)
C7_Original ==
    (pc = "done" /\ ResultOnly200) =>
        IF shape = "stdio"
        THEN stdout = <<JsonDumps(ResultPayload)>>
        ELSE outcome = <<Return(ResultPayload)>>

(* C7 amended: on a 200 response whose body is {result: R} the stdio       *)
(* shape writes the whole decoded body, {"result": R}, re-serialised, and  *)
(* exits normally; call_tool returns R.                                    *)
C7_WholeBodyOnStdio ==
    (pc = "done" /\ ResultOnly200) =>
        IF shape = "stdio"
        THEN /\ stdout = <<"{\"result\": " \o JsonDumps(ResultPayload) \o "}">>
             /\ exit_status = "ok"
        ELSE outcome = <<Return(ResultPayload)>>

C7_Witness ==
    /\ pc = "done"
    /\ shape = "stdio"
    /\ ResultOnly200
    /\ stdout = <<"{\"result\": {\"items\": [\"a\", \"b\"]}}">>
    /\ earlier # << >>
    /\ earlier[1].shape = "library"

(* C8: the same ToolRequest issued again, with any other calls in between, *)
(* posts to the same endpoint a byte-identical body, and a call never      *)
(* modifies the caller's arguments mapping.                                *)
C8_SameRequestSamePost ==
    /\ [](  (pc = "done" /\ SameRequestEarlier /\ earlier[1].shape = shape) =>
              /\ Len(posts) = Len(earlier[1].posts)
              /\ \A i \in DOMAIN posts :
                    /\ posts[i].url = earlier[1].posts[i].url
                    /\ JsonDumps(posts[i].json) = JsonDumps(earlier[1].posts[i].json))
    /\ [][pc # "idle" /\ pc' # "idle" => arguments' = arguments]_vars

C8_Witness ==
    /\ pc = "done"
    /\ SameRequestEarlier
    /\ earlier[1].shape = shape
    /\ Len(posts) = 1
    /\ "blacklist" \notin DOMAIN arguments
    /\ function_name = "list_rust_items"

(* C9: an invocation posts at most once: exactly once for a known tool     *)
(* whose required arguments are present, never otherwise, never again      *)
(* after a response or a failed request, and its result exists only after  *)
(* the request has completed.                                              *)
C9_AtMostOnePost ==
    /\ Len(posts) <= 1
    /\ Over => Len(posts) =
          IF function_name \in KnownTools /\ ~FunctionMissing THEN 1 ELSE 0
    /\ response # << >> => Len(posts) = 1
    /\ (outcome # << >> /\ posts # << >>) => response # << >>

C9_Witness ==
    /\ pc = "done"
    /\ Len(posts) = 1
    /\ GotResponse
    /\ response[1].status_code = 404
    /\ outcome # << >>

(* C10: for the same tool name and arguments the two shapes either both    *)
(* issue no request or both post equal bodies to the same URL.             *)
C10_ShapesPostAlike ==
    (pc = "done" /\ SameRequestEarlier /\ earlier[1].shape # shape) =>
        posts = earlier[1].posts

C10_Witness ==
    /\ pc = "done"
    /\ SameRequestEarlier
    /\ earlier[1].shape = "stdio"
    /\ shape = "library"
    /\ function_name = "analyze_rust_callgraph"
    /\ Len(posts) = 1

====
